---- MODULE Spec2Model ----
(***************************************************************************)
(* Model of @thetc/routing (packages/routing/src/index.ts): the mapping    *)
(* between route objects and relative URLs (toRelativeUrl, fromUrl) and    *)
(* the route registry (route, routePath, routeName, definedRoutes, from).  *)
(*                                                                         *)
(* A JavaScript string is a sequence of one-character strings.  A plain    *)
(* JavaScript object used as a map (Record<string, X>) is a sequence of    *)
(* <<key, value>> pairs in insertion order, which is the order of          *)
(* Object.entries for the non-numeric keys used here.                      *)
(***************************************************************************)
EXTENDS Integers, Sequences, FiniteSets, TLC

(***************************************************************************)
(* Characters.  The alphabet is printable ASCII (0x20 .. 0x7E); the three  *)
(* quote characters and the backslash are written by name.                 *)
(***************************************************************************)
Ascii ==
  <<" ", "!", "<dquote>", "#", "$", "%", "&", "<quote>", "(", ")", "*", "+", ",", "-", ".", "/",
    "0", "1", "2", "3", "4", "5", "6", "7", "8", "9", ":", ";", "<", "=", ">", "?",
    "@", "A", "B", "C", "D", "E", "F", "G", "H", "I", "J", "K", "L", "M", "N", "O",
    "P", "Q", "R", "S", "T", "U", "V", "W", "X", "Y", "Z", "[", "<backslash>", "]", "^", "_",
    "<backtick>", "a", "b", "c", "d", "e", "f", "g", "h", "i", "j", "k", "l", "m", "n", "o",
    "p", "q", "r", "s", "t", "u", "v", "w", "x", "y", "z", "{", "|", "}", "~">>

\* A stand-in for any character outside printable ASCII (a decoded control
\* character); no input of the model produces it.
OtherChar == "<other>"

Digits == {"0", "1", "2", "3", "4", "5", "6", "7", "8", "9"}

Letters == {Ascii[i] : i \in (34..59) \cup (66..91)}

AlNum == Letters \cup Digits

HexUpper == <<"0", "1", "2", "3", "4", "5", "6", "7", "8", "9", "A", "B", "C", "D", "E", "F">>

HexLower == <<"0", "1", "2", "3", "4", "5", "6", "7", "8", "9", "a", "b", "c", "d", "e", "f">>

IsHex(c) == \E i \in 1..16 : HexUpper[i] = c \/ HexLower[i] = c

HexVal(c) == (CHOOSE i \in 1..16 : HexUpper[i] = c \/ HexLower[i] = c) - 1

\* The code unit of a character.
CharCode(c) == (CHOOSE i \in 1..Len(Ascii) : Ascii[i] = c) + 31

\* "%XX" for a character (one UTF-8 byte for ASCII), upper-case hex.
PercentEncodeChar(c) ==
  <<"%", HexUpper[(CharCode(c) \div 16) + 1], HexUpper[(CharCode(c) % 16) + 1]>>

\* The character of a byte, for the bytes of printable ASCII.
ByteChar(n) == IF n >= 32 /\ n <= 126 THEN Ascii[n - 31] ELSE OtherChar

(***************************************************************************)
(* String helpers (methods of String.prototype).                           *)
(***************************************************************************)
RECURSIVE Flatten(_)
Flatten(ss) == IF ss = <<>> THEN <<>> ELSE Head(ss) \o Flatten(Tail(ss))

\* s.startsWith(t, i - 1): t occurs in s at (1-based) position i.
MatchesAt(s, t, i) ==
  /\ i >= 1
  /\ i + Len(t) - 1 <= Len(s)
  /\ \A j \in 1..Len(t) : s[i + j - 1] = t[j]

\* s.indexOf(t), 1-based; 0 when t does not occur.
IndexOf(s, t) ==
  IF \E i \in 1..(Len(s) + 1) : MatchesAt(s, t, i)
    THEN CHOOSE i \in 1..(Len(s) + 1) :
           MatchesAt(s, t, i) /\ \A j \in 1..(i - 1) : ~MatchesAt(s, t, j)
    ELSE 0

\* s.includes(t)
Includes(s, t) == IndexOf(s, t) # 0

\* s.replace(t, r) with a string pattern t: only the first occurrence of t
\* is replaced.  (r never contains "$" here: it is percent-encoded.)
ReplaceFirst(s, t, r) ==
  LET i == IndexOf(s, t) IN
    IF i = 0 THEN s
    ELSE SubSeq(s, 1, i - 1) \o r \o SubSeq(s, i + Len(t), Len(s))

RECURSIVE ReplaceAll(_, _, _)
ReplaceAll(s, t, r) ==
  LET i == IndexOf(s, t) IN
    IF i = 0 \/ t = <<>> THEN s
    ELSE SubSeq(s, 1, i - 1) \o r \o ReplaceAll(SubSeq(s, i + Len(t), Len(s)), t, r)

\* s.split(sep) for a one-character separator.
RECURSIVE Split(_, _)
Split(s, sep) ==
  LET i == IndexOf(s, <<sep>>) IN
    IF i = 0 THEN <<s>>
    ELSE <<SubSeq(s, 1, i - 1)>> \o Split(SubSeq(s, i + 1, Len(s)), sep)

\* Array.prototype.join
RECURSIVE Join(_, _)
Join(ss, sep) ==
  IF ss = <<>> THEN <<>>
  ELSE IF Len(ss) = 1 THEN ss[1]
  ELSE ss[1] \o sep \o Join(Tail(ss), sep)

(***************************************************************************)
(* encodeURIComponent / decodeURIComponent (ECMAScript).                   *)
(***************************************************************************)
UriUnreserved == AlNum \cup {"-", "_", ".", "!", "~", "*", "<quote>", "(", ")"}

encodeURIComponent(s) ==
  Flatten([i \in 1..Len(s) |->
             IF s[i] \in UriUnreserved THEN <<s[i]>> ELSE PercentEncodeChar(s[i])])

\* decodeURIComponent throws URIError on "%" not followed by two hex digits
\* and on bytes that are not valid UTF-8; a byte >= 0x80 never starts a valid
\* sequence in the model's inputs.
UriMalformed(s) ==
  \E i \in 1..Len(s) :
    /\ s[i] = "%"
    /\ \/ i + 2 > Len(s)
       \/ ~IsHex(s[i + 1])
       \/ ~IsHex(s[i + 2])
       \/ HexVal(s[i + 1]) >= 8

RECURSIVE PercentDecodeFrom(_, _)
PercentDecodeFrom(s, i) ==
  IF i > Len(s) THEN <<>>
  ELSE IF s[i] = "%" /\ i + 2 <= Len(s) /\ IsHex(s[i + 1]) /\ IsHex(s[i + 2])
    THEN <<ByteChar(HexVal(s[i + 1]) * 16 + HexVal(s[i + 2]))>> \o PercentDecodeFrom(s, i + 3)
    ELSE <<s[i]>> \o PercentDecodeFrom(s, i + 1)

\* The decoded string; meaningful when ~UriMalformed(s).
decodeURIComponent(s) == PercentDecodeFrom(s, 1)

(***************************************************************************)
(* Records: JavaScript objects used as string-keyed maps.                  *)
(***************************************************************************)
RecHas(r, k) == \E i \in 1..Len(r) : r[i][1] = k

RecIndex(r, k) == CHOOSE i \in 1..Len(r) : r[i][1] = k

RecGet(r, k) == r[RecIndex(r, k)][2]

\* r[k] = v : an existing key keeps its position, a new key is appended.
RecSet(r, k, v) ==
  IF RecHas(r, k)
    THEN [i \in 1..Len(r) |-> IF r[i][1] = k THEN <<k, v>> ELSE r[i]]
    ELSE Append(r, <<k, v>>)

\* Object.assign(r, src)
RECURSIVE RecAssign(_, _)
RecAssign(r, src) ==
  IF src = <<>> THEN r
  ELSE RecAssign(RecSet(r, Head(src)[1], Head(src)[2]), Tail(src))

(***************************************************************************)
(* URLSearchParams (WHATWG URL, application/x-www-form-urlencoded).  A     *)
(* URLSearchParams object is its list of <<name, value>> tuples.           *)
(***************************************************************************)
FormUnreserved == AlNum \cup {"*", "-", ".", "_"}

\* The urlencoded byte serializer: space becomes "+".
FormEncode(s) ==
  Flatten([i \in 1..Len(s) |->
             IF s[i] = " " THEN <<"+">>
             ELSE IF s[i] \in FormUnreserved THEN <<s[i]>>
             ELSE PercentEncodeChar(s[i])])

\* The urlencoded decoder: "+" becomes space, then a lenient percent-decode.
FormDecode(s) ==
  PercentDecodeFrom([i \in 1..Len(s) |-> IF s[i] = "+" THEN " " ELSE s[i]], 1)

FormParseEntry(piece) ==
  LET i == IndexOf(piece, <<"=">>) IN
    IF i = 0 THEN <<FormDecode(piece), <<>>>>
    ELSE <<FormDecode(SubSeq(piece, 1, i - 1)), FormDecode(SubSeq(piece, i + 1, Len(piece)))>>

\* new URLSearchParams(init) for a string init: one leading "?" is dropped,
\* empty pieces between "&" are skipped.
NewURLSearchParams(init) ==
  LET s == IF init # <<>> /\ init[1] = "?" THEN Tail(init) ELSE init
      pieces == SelectSeq(Split(s, "&"), LAMBDA p : p # <<>>)
  IN [i \in 1..Len(pieces) |-> FormParseEntry(pieces[i])]

SearchHas(params, name) == \E i \in 1..Len(params) : params[i][1] = name

\* URLSearchParams.get: the value of the first tuple named name (the caller
\* tests SearchHas first: get returns null when there is none).
SearchGet(params, name) ==
  params[CHOOSE i \in 1..Len(params) :
           params[i][1] = name /\ \A j \in 1..(i - 1) : params[j][1] # name][2]

SearchAppend(params, name, value) == Append(params, <<name, value>>)

\* URLSearchParams.set: the first tuple named name gets the value and the
\* other tuples of that name are removed; without one, the tuple is appended.
SearchSet(params, name, value) ==
  IF SearchHas(params, name)
    THEN LET first == CHOOSE i \in 1..Len(params) :
                        params[i][1] = name /\ \A j \in 1..(i - 1) : params[j][1] # name
             marked == [i \in 1..Len(params) |->
                          IF i = first THEN <<TRUE, <<name, value>>>>
                          ELSE <<params[i][1] # name, params[i]>>]
             kept == SelectSeq(marked, LAMBDA m : m[1])
         IN [i \in 1..Len(kept) |-> kept[i][2]]
    ELSE Append(params, <<name, value>>)

\* URLSearchParams.toString: every tuple is written name "=" value.
SearchToString(params) ==
  Join([i \in 1..Len(params) |->
          FormEncode(params[i][1]) \o <<"=">> \o FormEncode(params[i][2])], <<"&">>)

(***************************************************************************)
(* JavaScript values held by route fields.                                 *)
(***************************************************************************)
Undef == [t |-> "undefined", s |-> <<>>, b |-> FALSE, l |-> <<>>, o |-> <<>>]

Null == [t |-> "null", s |-> <<>>, b |-> FALSE, l |-> <<>>, o |-> <<>>]

StrV(str) == [t |-> "string", s |-> str, b |-> FALSE, l |-> <<>>, o |-> <<>>]

BoolV(bool) == [t |-> "boolean", s |-> <<>>, b |-> bool, l |-> <<>>, o |-> <<>>]

\* An array of strings.
ListV(list) == [t |-> "array", s |-> <<>>, b |-> FALSE, l |-> list, o |-> <<>>]

\* An object: a record from property names to values.
ObjV(obj) == [t |-> "object", s |-> <<>>, b |-> FALSE, l |-> <<>>, o |-> obj]

\* v == null
IsNullish(v) == v.t \in {"undefined", "null"}

\* v.toString() / String(v)
ValueToString(v) ==
  CASE v.t = "string" -> v.s
    [] v.t = "boolean" -> IF v.b THEN <<"t", "r", "u", "e">> ELSE <<"f", "a", "l", "s", "e">>
    [] v.t = "array" -> Join(v.l, <<",">>)
    [] v.t = "object" -> <<"[", "o", "b", "j", "e", "c", "t", " ", "O", "b", "j", "e", "c", "t", "]">>
    [] v.t = "null" -> <<"n", "u", "l", "l">>
    [] OTHER -> <<"u", "n", "d", "e", "f", "i", "n", "e", "d">>

\* v == false (loose equality) for the values a field holds in the model:
\* false itself, and the strings that convert to the number 0.
LooselyFalse(v) ==
  \/ v.t = "boolean" /\ ~v.b
  \/ v.t = "string" /\ v.s \in {<<>>, <<"0">>}
  \/ v.t = "array" /\ v.l \in {<<>>, <<<<>>>>, <<<<"0">>>>}

\* Truthiness of a property value.
Truthy(v) ==
  CASE v.t = "string" -> v.s # <<>>
    [] v.t = "boolean" -> v.b
    [] v.t \in {"array", "object"} -> TRUE
    [] OTHER -> FALSE

\* obj[key] of an object value
ObjGet(v, key) == IF RecHas(v.o, key) THEN RecGet(v.o, key) ELSE Undef

(***************************************************************************)
(* Strings of the route types below.                                       *)
(***************************************************************************)
sName == <<"n", "a", "m", "e">>
sIsHappy == <<"i", "s", "H", "a", "p", "p", "y">>
sHappy == <<"h", "a", "p", "p", "y">>
sOther == <<"o", "t", "h", "e", "r">>
sDefaultText == <<"T", "h", "i", "s", " ", "i", "s", " ", "s", "o", "m", "e", " ",
                  "d", "e", "f", "a", "u", "l", "t", " ", "t", "e", "x", "t", ".">>
sFleetMode == <<"f", "l", "e", "e", "t", "M", "o", "d", "e">>
sMode == <<"m", "o", "d", "e">>
sTarget == <<"t", "a", "r", "g", "e", "t">>
sFilter == <<"f", "i", "l", "t", "e", "r">>
sType == <<"t", "y", "p", "e">>
sId == <<"i", "d">>
sRegion == <<"r", "e", "g", "i", "o", "n">>
sDock == <<"d", "o", "c", "k">>
sBoat == <<"b", "o", "a", "t">>
sFilterRegion == <<"f", "i", "l", "t", "e", "r", "-">> \o sRegion
sFilterDock == <<"f", "i", "l", "t", "e", "r", "-">> \o sDock
sFilterBoat == <<"f", "i", "l", "t", "e", "r", "-">> \o sBoat
sMap == <<"m", "a", "p">>
sX == <<"x">>
sK == <<"k">>
sQ == <<"q">>
sFlag == <<"f", "l", "a", "g">>

(***************************************************************************)
(* Field annotations: the metadata the path(...) and query(...)            *)
(* decorators attach under routingKey.                                     *)
(***************************************************************************)
RoutingType == {"Path", "PathSerde", "Query", "QuerySerde"}

\* path() and path(propertyKey)
path(propertyKey) ==
  [type |-> "Path", propertyKey |-> propertyKey, dataType |-> "undefined", serde |-> "none"]

\* path(serialize, deserialize); the pair is named by serde
pathSerde(serde) ==
  [type |-> "PathSerde", propertyKey |-> Undef, dataType |-> "undefined", serde |-> serde]

\* query(), query(propertyKey) and query({key, type})
query(key, type) ==
  [type |-> "Query", propertyKey |-> key, dataType |-> type, serde |-> "none"]

\* query(serialize, deserialize)
querySerde(serde) ==
  [type |-> "QuerySerde", propertyKey |-> Undef, dataType |-> "undefined", serde |-> serde]

\* The serialize functions of the README: serializeTarget, serializeFilter.
\* The result is a record from keys to strings.
Serialize(serde, input) ==
  IF serde = "target"
    THEN << <<sType, ValueToString(ObjGet(input, sType))>>, <<sId, ValueToString(ObjGet(input, sId))>> >>
    ELSE (IF Truthy(ObjGet(input, sRegion))
            THEN << <<sFilterRegion, ValueToString(ObjGet(input, sRegion))>> >> ELSE <<>>)
         \o (IF Truthy(ObjGet(input, sDock))
               THEN << <<sFilterDock, ValueToString(ObjGet(input, sDock))>> >> ELSE <<>>)
         \o (IF Truthy(ObjGet(input, sBoat))
               THEN << <<sFilterBoat, ValueToString(ObjGet(input, sBoat))>> >> ELSE <<>>)

\* deserializeTarget of the README, applied to the captured groups.
DeserializePath(serde, groups) ==
  ObjV(<< <<sType, IF RecHas(groups, sType) THEN StrV(RecGet(groups, sType)) ELSE Undef>>,
          <<sId, IF RecHas(groups, sId) THEN StrV(RecGet(groups, sId)) ELSE Undef>> >>)

\* deserializeFilter of the README, applied to the URLSearchParams.
DeserializeQuery(serde, params) ==
  LET get(n) == IF SearchHas(params, n) THEN StrV(SearchGet(params, n)) ELSE Null
  IN ObjV(<< <<sRegion, get(sFilterRegion)>>, <<sDock, get(sFilterDock)>>,
             <<sBoat, get(sFilterBoat)>> >>)

(***************************************************************************)
(* The route types of the model.  A type is its list of own properties in  *)
(* definition order, each with its annotation and with the value a fresh   *)
(* instance (new type()) holds.                                            *)
(***************************************************************************)
Field(prop, meta, default) == [prop |-> prop, meta |-> meta, default |-> default]

\* README: class ExampleRoute
ExampleRouteFields ==
  << Field(sName, path(Undef), StrV(<<>>)),
     Field(sIsHappy, query(StrV(sHappy), "Boolean"), BoolV(FALSE)),
     Field(sOther, query(Undef, "undefined"), StrV(sDefaultText)) >>

\* README: class FleetDetailRoute; new FleetDetailRoute() leaves fleetMode
\* and target undefined.
FleetDetailRouteFields ==
  << Field(sFleetMode, path(StrV(sMode)), Undef),
     Field(sTarget, pathSerde("target"), Undef),
     Field(sFilter, querySerde("filter"), ObjV(<<>>)) >>

\* A type with a required path field, a query field defaulting to null, a
\* required query field and a Boolean flag defaulting to true.
ItemRouteFields ==
  << Field(sX, path(Undef), Undef),
     Field(sK, query(StrV(sK), "undefined"), Null),
     Field(sQ, query(Undef, "undefined"), Undef),
     Field(sFlag, query(Undef, "Boolean"), BoolV(TRUE)) >>

Classes == {"ExampleRoute", "FleetDetailRoute", "ItemRoute", "SubRoute"}

NoClass == "Object"

\* class SubRoute extends ExampleRoute {}
Parent(c) == IF c = "SubRoute" THEN "ExampleRoute" ELSE NoClass

Fields(c) ==
  CASE c \in {"ExampleRoute", "SubRoute"} -> ExampleRouteFields
    [] c = "FleetDetailRoute" -> FleetDetailRouteFields
    [] OTHER -> ItemRouteFields

Props(c) == {Fields(c)[i].prop : i \in 1..Len(Fields(c))}

\* new type(): the fresh instance
NewInstance(c) ==
  [p \in Props(c) |-> (Fields(c)[CHOOSE i \in 1..Len(Fields(c)) : Fields(c)[i].prop = p]).default]

(***************************************************************************)
(* Outcomes of a call: a returned value or a thrown error.                 *)
(***************************************************************************)
ErrNotRoute == "TypeError: Type does not contain a route. Use the @route decorator."
ErrParse == "Error: Could not parse URL to route"
ErrMissingPath == "Error: URL is missing path field"
ErrMissingQuery == "Error: URL is missing query field"
ErrUnfulfilled == "Error: Not all patterns fulfilled"
ErrSyntax == "SyntaxError: Invalid regular expression"
ErrURI == "URIError: URI malformed"
ErrUndefined == "TypeError: Cannot read properties of undefined"
ErrRedefine == "TypeError: Cannot redefine property"
ErrEntries == "TypeError: Cannot convert undefined or null to object"

NoInstance == <<>>

\* What a call produced.  ok: it returned (rather than threw); err, key: the
\* error thrown and the name its message carries; inst: a route instance;
\* url: a string; name, cls: the name and the constructor of a match of
\* from; nullish: the call returned null or undefined; routes: the record
\* definedRoutes returned.
Outcome ==
  [ok |-> TRUE, err |-> "", key |-> <<>>, inst |-> NoInstance, url |-> <<>>,
   name |-> "", cls |-> NoClass, nullish |-> FALSE, routes |-> <<>>]

\* throw err; key is the name the message carries, if any
Throw(err, key) == [Outcome EXCEPT !.ok = FALSE, !.err = err, !.key = key]

ReturnInstance(inst) == [Outcome EXCEPT !.inst = inst]

ReturnUrl(url) == [Outcome EXCEPT !.url = url]

(***************************************************************************)
(* The compiled pattern.  escapeRegExp escapes every metacharacter of the  *)
(* route, then each escaped "{...}" becomes the named group                *)
(* (?<...>[^/?]+); what is left matches literally.  A token is a literal   *)
(* character or a named group.                                             *)
(***************************************************************************)
Lit(c) == [g |-> FALSE, c |-> c, n |-> <<>>]

Grp(n) == [g |-> TRUE, c |-> "", n |-> n]

\* The position of the first "}" after position i, 0 when there is none.
ClosingBrace(p, i) ==
  IF \E j \in (i + 1)..Len(p) : p[j] = "}"
    THEN CHOOSE j \in (i + 1)..Len(p) : p[j] = "}" /\ \A k \in (i + 1)..(j - 1) : p[k] # "}"
    ELSE 0

\* .replace(/\\\{(.*?)\\\}/g, "(?<$1>[^/?]+)") on the escaped route
RECURSIVE Tokenize(_, _)
Tokenize(p, i) ==
  IF i > Len(p) THEN <<>>
  ELSE IF p[i] = "{" /\ ClosingBrace(p, i) # 0
    THEN <<Grp(SubSeq(p, i + 1, ClosingBrace(p, i) - 1))>> \o Tokenize(p, ClosingBrace(p, i) + 1)
    ELSE <<Lit(p[i])>> \o Tokenize(p, i + 1)

\* A capture group name must be an identifier; the characters escapeRegExp
\* escapes, "$" among them, make the name invalid.
IsGroupName(n) ==
  /\ n # <<>>
  /\ n[1] \in Letters \cup {"_"}
  /\ \A i \in 1..Len(n) : n[i] \in AlNum \cup {"_"}

\* new RegExp(...) throws a SyntaxError on an invalid or a duplicate group name
RegExpValid(toks) ==
  /\ \A i \in 1..Len(toks) : toks[i].g => IsGroupName(toks[i].n)
  /\ \A i, j \in 1..Len(toks) : toks[i].g /\ toks[j].g /\ toks[i].n = toks[j].n => i = j

\* The length of the longest run of characters outside stop, from pos.
RECURSIVE RunLength(_, _, _)
RunLength(s, pos, stop) ==
  IF pos > Len(s) \/ s[pos] \in stop THEN 0 ELSE 1 + RunLength(s, pos + 1, stop)

NoMatch == [ok |-> FALSE, groups |-> <<>>, end |-> 0]

\* Backtracking match of the tokens from ti on at position pos of s: a
\* group is greedy, [^/?]+ takes the longest run for which the rest matches.
RECURSIVE MatchTokens(_, _, _, _)
RECURSIVE MatchGroup(_, _, _, _, _)
MatchTokens(toks, ti, s, pos) ==
  IF ti > Len(toks) THEN [ok |-> TRUE, groups |-> <<>>, end |-> pos]
  ELSE IF toks[ti].g
    THEN MatchGroup(toks, ti, s, pos, RunLength(s, pos, {"/", "?"}))
    ELSE IF pos <= Len(s) /\ s[pos] = toks[ti].c
      THEN MatchTokens(toks, ti + 1, s, pos + 1)
      ELSE NoMatch

\* [^/?]* in place of [^/?]+: a group may capture the empty string.
RECURSIVE MatchGroupOrEmpty(_, _, _, _, _)
MatchGroupOrEmpty(toks, ti, s, pos, len) ==
  IF len < 0 THEN NoMatch
  ELSE LET rest == MatchTokens(toks, ti + 1, s, pos + len) IN
    IF rest.ok
      THEN [ok |-> TRUE,
            groups |-> << <<toks[ti].n, SubSeq(s, pos, pos + len - 1)>> >> \o rest.groups,
            end |-> rest.end]
      ELSE MatchGroupOrEmpty(toks, ti, s, pos, len - 1)

MatchGroup(toks, ti, s, pos, len) ==
  IF len < 1 THEN NoMatch
  ELSE LET rest == MatchTokens(toks, ti + 1, s, pos + len) IN
    IF rest.ok
      THEN [ok |-> TRUE,
            groups |-> << <<toks[ti].n, SubSeq(s, pos, pos + len - 1)>> >> \o rest.groups,
            end |-> rest.end]
      ELSE MatchGroup(toks, ti, s, pos, len - 1)

\* re.exec(path) for re = new RegExp(`${pathRegex}(?:\\?([^#]*))?`): the
\* leftmost match, the regular expression is not anchored.  hasQuery tells
\* whether the last group, the query string, took part in the match.
RegExpExec(toks, s) ==
  LET starts == {i \in 1..(Len(s) + 1) : MatchTokens(toks, 1, s, i).ok} IN
    IF starts = {} THEN [ok |-> FALSE, groups |-> <<>>, hasQuery |-> FALSE, query |-> <<>>]
    ELSE LET start == CHOOSE i \in starts : \A j \in starts : i <= j
             m == MatchTokens(toks, 1, s, start)
             q == m.end <= Len(s) /\ s[m.end] = "?"
         IN [ok |-> TRUE, groups |-> m.groups, hasQuery |-> q,
             query |-> IF q THEN SubSeq(s, m.end + 1, m.end + RunLength(s, m.end + 1, {"#"}))
                       ELSE <<>>]

(***************************************************************************)
(* toRelativePath and toRelativeUrl.                                       *)
(***************************************************************************)
\* for (const [key, value] of Object.entries(pathParams))
\*   url = url.replace(`{${key}}`, encodeURIComponent(value))
RECURSIVE SubstitutePathParams(_, _, _)
SubstitutePathParams(url, pathParams, i) ==
  IF i > Len(pathParams) THEN url
  ELSE SubstitutePathParams(
         ReplaceFirst(url, <<"{">> \o pathParams[i][1] \o <<"}">>,
                      encodeURIComponent(pathParams[i][2])),
         pathParams, i + 1)

\* urlParams.append(key, v) for every element v of an array value
RECURSIVE AppendAll(_, _, _)
AppendAll(urlParams, key, list) ==
  IF list = <<>> THEN urlParams
  ELSE AppendAll(SearchAppend(urlParams, key, Head(list)), key, Tail(list))

\* the loop over Object.entries(queryParams)
RECURSIVE BuildUrlParams(_, _, _)
BuildUrlParams(urlParams, queryParams, i) ==
  IF i > Len(queryParams) THEN urlParams
  ELSE LET key == queryParams[i][1]
           value == queryParams[i][2]
       IN BuildUrlParams(
            IF value.t = "array" THEN AppendAll(urlParams, key, value.l)
            ELSE SearchSet(urlParams, key, ValueToString(value)),
            queryParams, i + 1)

\* The check for a placeholder left in the URL is missing.
UnfulfilledNever(url) == FALSE

\* url.includes("{"): a placeholder was left in the URL
Unfulfilled(url) == Includes(url, <<"{">>)

\* toRelativePath(pattern, pathParams, queryParams); pattern is a value,
\* undefined when the object has no route.
toRelativePath(pattern, pathParams, queryParams) ==
  IF IsNullish(pattern) THEN Throw(ErrUndefined, <<>>)
  ELSE LET url == SubstitutePathParams(pattern.s, pathParams, 1)
           searchSegment == SearchToString(BuildUrlParams(<<>>, queryParams, 1))
       IN IF Unfulfilled(url) THEN Throw(ErrUnfulfilled, <<>>)
          ELSE IF searchSegment # <<>> THEN ReturnUrl(url \o <<"?">> \o searchSegment)
          ELSE ReturnUrl(url)

\* meta.propertyKey ?? propName
KeyOf(field) ==
  IF IsNullish(field.meta.propertyKey) THEN field.prop ELSE field.meta.propertyKey.s

\* queryParams[key] of the Query case of toRelativeUrl
QueryParamValue(field, value) ==
  IF field.meta.dataType = "Boolean" /\ ~IsNullish(value) /\ ~LooselyFalse(value)
    THEN StrV(<<>>)
    ELSE StrV(ValueToString(value))

\* The loop of toRelativeUrl over the own properties of obj: the pair
\* <<pathParams, queryParams>> it collects.
RECURSIVE CollectParams(_, _, _, _, _)
CollectParams(fields, i, obj, pathParams, queryParams) ==
  IF i > Len(fields) THEN <<pathParams, queryParams>>
  ELSE LET field == fields[i]
           value == obj[field.prop]
       IN IF IsNullish(value) THEN CollectParams(fields, i + 1, obj, pathParams, queryParams)
          ELSE CASE field.meta.type = "Path" ->
                      CollectParams(fields, i + 1, obj,
                        RecSet(pathParams, KeyOf(field), ValueToString(value)), queryParams)
                 [] field.meta.type = "PathSerde" ->
                      CollectParams(fields, i + 1, obj,
                        RecAssign(pathParams, Serialize(field.meta.serde, value)), queryParams)
                 [] field.meta.type = "Query" ->
                      CollectParams(fields, i + 1, obj, pathParams,
                        RecSet(queryParams, KeyOf(field), QueryParamValue(field, value)))
                 [] OTHER ->
                      CollectParams(fields, i + 1, obj, pathParams,
                        RecAssign(queryParams,
                          [j \in 1..Len(Serialize(field.meta.serde, value)) |->
                             <<Serialize(field.meta.serde, value)[j][1],
                               StrV(Serialize(field.meta.serde, value)[j][2])>>]))

\* type[routeKey]: the getter route(...) defined on the constructor, found
\* along the constructor's prototype chain; undefined when there is none.
\* meta maps a constructor to the route and name defined on it.
RECURSIVE RouteKey(_, _)
RouteKey(meta, c) ==
  IF c = NoClass THEN Undef
  ELSE IF meta[c].defined THEN StrV(meta[c].route)
  ELSE RouteKey(meta, Parent(c))

\* toRelativeUrl(obj, route) for an instance obj of class cls
toRelativeUrl(meta, cls, obj, route) ==
  LET params == CollectParams(Fields(cls), 1, obj, <<>>, <<>>)
  IN toRelativePath(IF IsNullish(route) THEN RouteKey(meta, cls) ELSE route,
                    params[1], params[2])

(***************************************************************************)
(* resolveFieldsMetadata and fromUrl.                                      *)
(***************************************************************************)
\* pathFields / queryFields of resolveFieldsMetadata, in property order
PathFields(c) == SelectSeq(Fields(c), LAMBDA f : f.meta.type \in {"Path", "PathSerde"})

QueryFields(c) == SelectSeq(Fields(c), LAMBDA f : f.meta.type \in {"Query", "QuerySerde"})

\* tmp[key] != null: the path field has a default
HasPathDefault(value) == ~IsNullish(value)

\* No default is honoured: a query field without a value always fails.
HasQueryDefaultNever(value) == FALSE

\* tmp[key] !== undefined: the query field has a default
HasQueryDefault(value) == value.t # "undefined"

\* for (const [key, value] of Object.entries(pathFields)) { ... }
RECURSIVE ReadPathFields(_, _, _, _)
ReadPathFields(fields, i, tmp, groups) ==
  IF i > Len(fields) THEN ReturnInstance(tmp)
  ELSE LET field == fields[i] IN
    IF field.meta.type = "Path"
      THEN IF ~RecHas(groups, KeyOf(field))
             THEN IF HasPathDefault(tmp[field.prop])
                    THEN ReadPathFields(fields, i + 1, tmp, groups)
                    ELSE Throw(ErrMissingPath, KeyOf(field))
           ELSE IF UriMalformed(RecGet(groups, KeyOf(field)))
             THEN Throw(ErrURI, <<>>)
           ELSE ReadPathFields(fields, i + 1,
                  [tmp EXCEPT ![field.prop] = StrV(decodeURIComponent(RecGet(groups, KeyOf(field))))],
                  groups)
      ELSE ReadPathFields(fields, i + 1,
             [tmp EXCEPT ![field.prop] = DeserializePath(field.meta.serde, groups)], groups)

\* for (const [key, value] of Object.entries(queryFields)) { ... }
RECURSIVE ReadQueryFields(_, _, _, _)
ReadQueryFields(fields, i, tmp, queryParams) ==
  IF i > Len(fields) THEN ReturnInstance(tmp)
  ELSE LET field == fields[i] IN
    IF field.meta.type = "Query"
      THEN IF field.meta.dataType = "Boolean"
             THEN ReadQueryFields(fields, i + 1,
                    [tmp EXCEPT ![field.prop] = BoolV(SearchHas(queryParams, KeyOf(field)))],
                    queryParams)
           ELSE IF ~SearchHas(queryParams, KeyOf(field))
             THEN IF HasQueryDefault(tmp[field.prop])
                    THEN ReadQueryFields(fields, i + 1, tmp, queryParams)
                    ELSE Throw(ErrMissingQuery, KeyOf(field))
           ELSE ReadQueryFields(fields, i + 1,
                  [tmp EXCEPT ![field.prop] = StrV(SearchGet(queryParams, KeyOf(field)))],
                  queryParams)
      ELSE ReadQueryFields(fields, i + 1,
             [tmp EXCEPT ![field.prop] = DeserializeQuery(field.meta.serde, queryParams)],
             queryParams)

\* assertIsRoute(type) fails
NotARoute(meta, type) == IsNullish(RouteKey(meta, type))

\* fromUrl(type, path, route); route is undefined or a string
fromUrl(meta, type, urlPath, route) ==
  IF IsNullish(route) /\ NotARoute(meta, type) THEN Throw(ErrNotRoute, <<>>)
  ELSE LET tmp == NewInstance(type)
           pattern == IF IsNullish(route) THEN RouteKey(meta, type).s ELSE route.s
           toks == Tokenize(pattern, 1)
       IN IF ~RegExpValid(toks) THEN Throw(ErrSyntax, <<>>)
          ELSE LET result == RegExpExec(toks, urlPath) IN
            IF ~result.ok THEN Throw(ErrParse, <<>>)
            ELSE LET queryParams == IF result.hasQuery THEN NewURLSearchParams(result.query)
                                    ELSE <<>>
                     afterPath == ReadPathFields(PathFields(type), 1, tmp, result.groups)
                 IN IF ~afterPath.ok THEN afterPath
                    ELSE ReadQueryFields(QueryFields(type), 1, afterPath.inst, queryParams)

(***************************************************************************)
(* The route registry: route, routePath, routeName, definedRoutes, from.   *)
(* knownRoutes is a record from groups to records from names to lists of   *)
(* constructors.                                                           *)
(***************************************************************************)
NoMeta == [defined |-> FALSE, route |-> <<>>, name |-> ""]

\* unshift in place of push: the constructor is put first in its list.
RouteKnownRoutesUnshift(known, meta, constructor, name, group) ==
  LET withGroup == IF RecHas(known, group) THEN known ELSE RecSet(known, group, <<>>)
      names == RecGet(withGroup, group)
      withName == IF RecHas(names, name) THEN names ELSE RecSet(names, name, <<>>)
      pushed == RecSet(withName, name, <<constructor>> \o RecGet(withName, name))
  IN RecSet(withGroup, group, IF meta[constructor].defined THEN withName ELSE pushed)

\* knownRoutes after route(name, path, {group})(constructor).  The group
\* and the name are entered before the properties are defined, the
\* constructor is pushed after.
RouteKnownRoutes(known, meta, constructor, name, group) ==
  LET withGroup == IF RecHas(known, group) THEN known ELSE RecSet(known, group, <<>>)
      names == RecGet(withGroup, group)
      withName == IF RecHas(names, name) THEN names ELSE RecSet(names, name, <<>>)
      pushed == RecSet(withName, name, Append(RecGet(withName, name), constructor))
  IN RecSet(withGroup, group, IF meta[constructor].defined THEN withName ELSE pushed)

\* Object.defineProperties throws when the constructor already has the
\* (non-configurable) routeKey and nameKey properties.
RouteThrows(meta, constructor) == meta[constructor].defined

RouteMeta(meta, constructor, name, routePattern) ==
  IF meta[constructor].defined THEN meta
  ELSE [meta EXCEPT ![constructor] = [defined |-> TRUE, route |-> routePattern, name |-> name]]

\* type[nameKey], along the prototype chain
RECURSIVE NameKey(_, _)
NameKey(meta, c) ==
  IF c = NoClass THEN ""
  ELSE IF meta[c].defined THEN meta[c].name
  ELSE NameKey(meta, Parent(c))

routePath(meta, type) ==
  IF NotARoute(meta, type) THEN Throw(ErrNotRoute, <<>>)
  ELSE ReturnUrl(RouteKey(meta, type).s)

routeName(meta, type) ==
  IF NotARoute(meta, type) THEN Throw(ErrNotRoute, <<>>)
  ELSE [Outcome EXCEPT !.name = NameKey(meta, type)]

\* definedRoutes(group): knownRoutes[group], undefined for an unknown group
definedRoutes(known, group) ==
  IF RecHas(known, group) THEN [Outcome EXCEPT !.routes = RecGet(known, group)]
  ELSE [Outcome EXCEPT !.nullish = TRUE]

\* The loops of from over the names of the group (from index i) and over
\* the candidates of a name (from index j): the first candidate for which
\* fromUrl returns; every error fromUrl throws is caught.
RECURSIVE FromCandidates(_, _, _, _, _)
FromCandidates(meta, url, entries, i, j) ==
  IF i > Len(entries) THEN [Outcome EXCEPT !.nullish = TRUE]
  ELSE IF j > Len(entries[i][2]) THEN FromCandidates(meta, url, entries, i + 1, 1)
  ELSE LET candidate == entries[i][2][j]
           parsed == fromUrl(meta, candidate, url, Undef)
       IN IF parsed.ok
            THEN [Outcome EXCEPT !.name = entries[i][1], !.inst = parsed.inst, !.cls = candidate]
            ELSE FromCandidates(meta, url, entries, i, j + 1)

\* from(url, group): Object.entries(undefined) throws for an unknown group
from(known, meta, url, group) ==
  IF definedRoutes(known, group).nullish THEN Throw(ErrEntries, <<>>)
  ELSE FromCandidates(meta, url, definedRoutes(known, group).routes, 1, 1)

(***************************************************************************)
(* Inputs of the model: route patterns, URLs, field values.                *)
(***************************************************************************)
sExample == <<"/", "e", "x", "a", "m", "p", "l", "e">>
sBasic == <<"B", "a", "s", "i", "c">>
sSmolPotat == <<"s", "m", "o", "l", " ", "p", "o", "t", "a", "t">>
sSendHelp == <<"S", "e", "n", "d", " ", "h", "e", "l", "p", ".">>
sHelloWorld == <<"h", "e", "l", "l", "o", " ", "w", "o", "r", "l", "d">>

\* "/example/{name}"
pExample == sExample \o <<"/", "{">> \o sName \o <<"}">>
\* "/{mode}/{type}/{id}"
pFleet == <<"/", "{">> \o sMode \o <<"}", "/", "{">> \o sType \o <<"}", "/", "{">> \o sId \o <<"}">>
\* "/a/{x}/b"
pItem == <<"/", "a", "/", "{", "x", "}", "/", "b">>
\* "/a/{x}/{x}": the same placeholder twice
pTwice == <<"/", "a", "/", "{", "x", "}", "/", "{", "x", "}">>
\* "/a/{y}/b": a placeholder no field of a model type is bound to
pOrphan == <<"/", "a", "/", "{", "y", "}", "/", "b">>
\* "/example/": no placeholder
pPlain == sExample \o <<"/">>

\* The route argument of toRelativeUrl and fromUrl: absent or a pattern.
Routes == {Undef} \cup {StrV(p) : p \in {pExample, pFleet, pItem, pTwice, pOrphan, pPlain}}

\* The pattern each type is registered with when the module is loaded.
DeclaredPath(c) ==
  CASE c \in {"ExampleRoute", "SubRoute"} -> pExample
    [] c = "FleetDetailRoute" -> pFleet
    [] OTHER -> pItem

DeclaredName(c) ==
  CASE c \in {"ExampleRoute", "SubRoute"} -> "example"
    [] OTHER -> "detail"

RouteNames == {"example", "detail"}

Groups == {"", "admin"}

uBasic == sExample \o <<"/">> \o sBasic
uItem == <<"/", "a", "/", "v", "/", "b", "?", "q", "=", "1">>

\* The URLs given to fromUrl.
Urls ==
  { uBasic,                                                  \* /example/Basic
    sExample \o <<"/">>,                                     \* /example/
    sExample \o <<"/", "s", "m", "o", "l", "%", "2", "0", "p", "o", "t", "a", "t", "?">> \o sHappy,
    sExample \o <<"/", "P", "?">> \o sHappy \o <<"=", "n", "o", "&">> \o sOther
       \o <<"=", "S", "e", "n", "d", "+", "h", "e", "l", "p", ".">>,
    <<"/", "x">> \o uBasic \o <<"/", "y">>,                  \* /x/example/Basic/y
    sExample \o <<"/", "%", "z">>,                           \* /example/%z
    uItem,                                                   \* /a/v/b?q=1
    <<"/", "a", "/", "v", "/", "b">>,                        \* /a/v/b
    <<"/", "a", "/", "/", "b", "?", "q", "=", "1">>,         \* /a//b?q=1
    <<"/", "a", "/", "v", "/", "b", "?", "k", "=", "1", "&", "q", "=", "&", "f", "l", "a", "g", "&", "k", "=", "2">>,
    <<"/", "a", "/", "v", "/", "v", "?", "q", "=", "1">> }   \* /a/v/v?q=1

Target(type, id) == ObjV(<< <<sType, StrV(type)>>, <<sId, StrV(id)>> >>)

Filter(region) == ObjV(<< <<sRegion, region>>, <<sDock, Null>>, <<sBoat, Null>> >>)

\* The values an instance holds in a field.
FieldValues(c, prop) ==
  CASE prop = sName -> {Null, StrV(<<>>), StrV(sBasic), StrV(sSmolPotat)}
    [] prop = sIsHappy -> {BoolV(TRUE), BoolV(FALSE)}
    [] prop = sOther -> {StrV(sDefaultText), StrV(sSendHelp), StrV(<<>>)}
    [] prop = sFleetMode -> {Undef, StrV(sMap)}
    [] prop = sTarget -> {Undef, Target(sDock, <<"a", " ", "b">>), Target(sBoat, <<"7">>)}
    [] prop = sFilter -> {Filter(Null), Filter(StrV(<<"r", "&", "d">>))}
    [] prop = sX -> {Undef, StrV(<<>>), StrV(sHelloWorld)}
    [] prop = sK -> {Null, StrV(<<"a">>), ListV(<< <<"a">>, <<"b">> >>)}
    [] prop = sQ -> {Undef, StrV(<<"1">>)}
    [] OTHER -> {BoolV(TRUE), BoolV(FALSE)}

Instances(c) == {obj \in [Props(c) -> UNION {FieldValues(c, p) : p \in Props(c)}] :
                   \A p \in Props(c) : obj[p] \in FieldValues(c, p)}

\* The URLs given to from.
FromUrls == {uBasic, uItem}

\* The number of times route(...) is applied.
MaxRoutes == 3

(***************************************************************************)
(* State.                                                                  *)
(***************************************************************************)
VARIABLES
  knownRoutes,   \* the registry
  routeMeta,     \* constructor -> the route and name route(...) defined on it
  routeCalls,    \* history: the applications of route(...), in order
  op,            \* the last operation called
  args,          \* its arguments
  ret            \* its outcome

vars == <<knownRoutes, routeMeta, routeCalls, op, args, ret>>

NoArgs ==
  [cls |-> NoClass, obj |-> NoInstance, url |-> <<>>, route |-> Undef,
   group |-> "", name |-> "", produced |-> FALSE]

Init ==
  /\ knownRoutes = <<>>
  /\ routeMeta = [c \in Classes |-> NoMeta]
  /\ routeCalls = <<>>
  /\ op = "load"
  /\ args = NoArgs
  /\ ret = Outcome

\* route(name, routePattern, {group})(constructor)
Route(constructor, name, routePattern, group) ==
  /\ Len(routeCalls) < MaxRoutes
  /\ knownRoutes' = RouteKnownRoutes(knownRoutes, routeMeta, constructor, name, group)
  /\ routeMeta' = RouteMeta(routeMeta, constructor, name, routePattern)
  /\ routeCalls' = Append(routeCalls, [cls |-> constructor, name |-> name, group |-> group,
                                        route |-> routePattern,
                                        ok |-> ~RouteThrows(routeMeta, constructor)])
  /\ op' = "route"
  /\ args' = [NoArgs EXCEPT !.cls = constructor, !.name = name, !.group = group,
                            !.route = StrV(routePattern)]
  /\ ret' = IF RouteThrows(routeMeta, constructor) THEN Throw(ErrRedefine, <<>>) ELSE Outcome

\* toRelativeUrl(obj, route) for an instance obj of cls
ToRelativeUrl(cls, obj, route) ==
  /\ op' = "toRelativeUrl"
  /\ args' = [NoArgs EXCEPT !.cls = cls, !.obj = obj, !.route = route]
  /\ ret' = toRelativeUrl(routeMeta, cls, obj, route)
  /\ UNCHANGED <<knownRoutes, routeMeta, routeCalls>>

\* fromUrl(type, url, route)
FromUrl(type, url, route) ==
  /\ op' = "fromUrl"
  /\ args' = [NoArgs EXCEPT !.cls = type, !.url = url, !.route = route]
  /\ ret' = fromUrl(routeMeta, type, url, route)
  /\ UNCHANGED <<knownRoutes, routeMeta, routeCalls>>

\* fromUrl(type, toRelativeUrl(obj, route), route): fromUrl applied to the
\* URL the preceding call of toRelativeUrl returned, for the type of obj.
FromUrlOfRelativeUrl ==
  /\ op = "toRelativeUrl"
  /\ ret.ok
  /\ op' = "fromUrl"
  /\ args' = [args EXCEPT !.url = ret.url, !.produced = TRUE]
  /\ ret' = fromUrl(routeMeta, args.cls, ret.url, args.route)
  /\ UNCHANGED <<knownRoutes, routeMeta, routeCalls>>

\* from(url, group)
From(url, group) ==
  /\ op' = "from"
  /\ args' = [NoArgs EXCEPT !.url = url, !.group = group]
  /\ ret' = from(knownRoutes, routeMeta, url, group)
  /\ UNCHANGED <<knownRoutes, routeMeta, routeCalls>>

\* routePath(type)
RoutePath(type) ==
  /\ op' = "routePath"
  /\ args' = [NoArgs EXCEPT !.cls = type]
  /\ ret' = routePath(routeMeta, type)
  /\ UNCHANGED <<knownRoutes, routeMeta, routeCalls>>

\* routeName(type)
RouteName(type) ==
  /\ op' = "routeName"
  /\ args' = [NoArgs EXCEPT !.cls = type]
  /\ ret' = routeName(routeMeta, type)
  /\ UNCHANGED <<knownRoutes, routeMeta, routeCalls>>

\* definedRoutes(group)
DefinedRoutes(group) ==
  /\ op' = "definedRoutes"
  /\ args' = [NoArgs EXCEPT !.group = group]
  /\ ret' = definedRoutes(knownRoutes, group)
  /\ UNCHANGED <<knownRoutes, routeMeta, routeCalls>>

(***************************************************************************)
(* Spec: the registry.  ExampleRoute, SubRoute and ItemRoute are           *)
(* registered in any order, under any name and group, interleaved with the *)
(* read operations.                                                        *)
(***************************************************************************)
RegistryClasses == {"ExampleRoute", "SubRoute", "ItemRoute"}

Next ==
  \/ \E c \in RegistryClasses, name \in RouteNames, group \in Groups :
       Route(c, name, DeclaredPath(c), group)
  \/ \E url \in FromUrls, group \in Groups : From(url, group)
  \/ \E c \in RegistryClasses : RoutePath(c)
  \/ \E c \in RegistryClasses : RouteName(c)
  \/ \E group \in Groups : DefinedRoutes(group)
  \/ \E c \in RegistryClasses, url \in FromUrls : FromUrl(c, url, Undef)
  \/ \E c \in RegistryClasses : ToRelativeUrl(c, NewInstance(c), Undef)
  \/ FromUrlOfRelativeUrl

Spec == Init /\ [][Next]_vars

(***************************************************************************)
(* SpecUrl: the URL mapping.  The module is loaded: ExampleRoute,          *)
(* FleetDetailRoute and ItemRoute are registered in the default group,     *)
(* SubRoute is not; toRelativeUrl and fromUrl are called on every          *)
(* instance, URL and route of the model.                                   *)
(***************************************************************************)
Loaded == <<"ExampleRoute", "FleetDetailRoute", "ItemRoute">>

RECURSIVE LoadKnownRoutes(_)
LoadKnownRoutes(n) ==
  IF n = 0 THEN <<>>
  ELSE RouteKnownRoutes(LoadKnownRoutes(n - 1), [c \in Classes |-> NoMeta],
                        Loaded[n], DeclaredName(Loaded[n]), "")

InitUrl ==
  /\ knownRoutes = LoadKnownRoutes(Len(Loaded))
  /\ routeMeta = [c \in Classes |->
                    IF \E n \in 1..Len(Loaded) : Loaded[n] = c
                      THEN RouteMeta([d \in Classes |-> NoMeta], c, DeclaredName(c), DeclaredPath(c))[c]
                      ELSE NoMeta]
  /\ routeCalls = [n \in 1..Len(Loaded) |->
                     [cls |-> Loaded[n], name |-> DeclaredName(Loaded[n]), group |-> "",
                      route |-> DeclaredPath(Loaded[n]), ok |-> TRUE]]
  /\ op = "load"
  /\ args = NoArgs
  /\ ret = Outcome

NextUrl ==
  \/ \E c \in Classes : \E obj \in Instances(c), route \in Routes : ToRelativeUrl(c, obj, route)
  \/ \E c \in Classes, url \in Urls, route \in Routes : FromUrl(c, url, route)
  \/ FromUrlOfRelativeUrl
  \/ \E url \in Urls, group \in Groups : From(url, group)

SpecUrl == InitUrl /\ [][NextUrl]_vars

(***************************************************************************)
(* Properties.                                                             *)
(***************************************************************************)
\* The last call was fromUrl(type, toRelativeUrl(i)) for an instance i of a
\* registered type, without an explicit route.
IsRoundTrip ==
  /\ op = "fromUrl"
  /\ args.produced
  /\ IsNullish(args.route)
  /\ routeMeta[args.cls].defined

AllFieldsSet(cls, obj) == \A p \in Props(cls) : ~IsNullish(obj[p])

\* C1: for every instance i of a registered route type whose annotated
\* fields are all set, fromUrl(type, toRelativeUrl(i)) returns an instance
\* whose annotated fields equal those of i.
C1_RoundTrip ==
  IsRoundTrip /\ AllFieldsSet(args.cls, args.obj)
    => /\ ret.ok
       /\ \A p \in Props(args.cls) : ret.inst[p] = args.obj[p]

(***************************************************************************)
(* What the claims speak of, stated without the code's matcher.            *)
(***************************************************************************)
\* The pattern the last call of toRelativeUrl or fromUrl used (a value).
UsedPattern == IF IsNullish(args.route) THEN RouteKey(routeMeta, args.cls) ELSE args.route

UsedTokens == Tokenize(UsedPattern.s, 1)

\* The last call was fromUrl and it got as far as compiling a pattern.
IsFromUrl == op = "fromUrl" /\ ~IsNullish(UsedPattern) /\ RegExpValid(UsedTokens)

\* The names of the placeholders of a pattern.
Placeholders(toks) == {toks[i].n : i \in {j \in 1..Len(toks) : toks[j].g}}

\* The path of a URL: every character before the first "?".
PathOf(url) ==
  IF Includes(url, <<"?">>) THEN SubSeq(url, 1, IndexOf(url, <<"?">>) - 1) ELSE url

\* The query string of a URL: what follows the first "?", up to a "#".
QueryOf(url) ==
  IF Includes(url, <<"?">>)
    THEN SubSeq(url, IndexOf(url, <<"?">>) + 1,
                IndexOf(url, <<"?">>) + RunLength(url, IndexOf(url, <<"?">>) + 1, {"#"}))
    ELSE <<>>

\* s[lo..hi] is the pattern from token ti on, with every placeholder
\* standing for one or more characters other than "/" and "?".
RECURSIVE Derives(_, _, _, _, _)
Derives(toks, ti, s, lo, hi) ==
  IF ti > Len(toks) THEN lo = hi + 1
  ELSE IF toks[ti].g
    THEN \E next \in (lo + 1)..(hi + 1) :
           /\ \A i \in lo..(next - 1) : s[i] \notin {"/", "?"}
           /\ Derives(toks, ti + 1, s, next, hi)
    ELSE lo <= hi /\ s[lo] = toks[ti].c /\ Derives(toks, ti + 1, s, lo + 1, hi)

\* The whole string matches the pattern.
FullMatch(toks, s) == Derives(toks, 1, s, 1, Len(s))

\* Some substring matches the pattern.
MatchesSomewhere(toks, s) ==
  \E lo \in 1..(Len(s) + 1) : \E hi \in (lo - 1)..Len(s) : Derives(toks, 1, s, lo, hi)

\* The pattern without the placeholder {k}.
WithoutPlaceholder(toks, k) == SelectSeq(toks, LAMBDA tok : ~(tok.g /\ tok.n = k))

\* The path of the URL carries no value for the placeholder {k}: it is the
\* pattern with {k} left empty.
CarriesNoValue(toks, k, url) ==
  k \in Placeholders(toks) /\ FullMatch(WithoutPlaceholder(toks, k), PathOf(url))

PlainPathFields(c) == {f \in {Fields(c)[i] : i \in 1..Len(Fields(c))} : f.meta.type = "Path"}

PlainQueryFields(c) == {f \in {Fields(c)[i] : i \in 1..Len(Fields(c))} : f.meta.type = "Query"}

\* C2: fromUrl returns an instance only when the whole path of the URL
\* matches the pattern; with extra characters around a matching substring
\* it throws the parse error.
C2_FullMatchOnly ==
  IsFromUrl /\ ~FullMatch(UsedTokens, PathOf(args.url))
    => ~ret.ok /\ ret.err = ErrParse

\* C3: when the URL carries no value for a placeholder {k} and the field
\* bound to k has no default, fromUrl throws the missing-path-field error
\* naming k; "/example/Basic" against "/example/{name}" gives name = "Basic".
C3_MissingPathField ==
  IsFromUrl =>
    /\ \A f \in PlainPathFields(args.cls) :
         CarriesNoValue(UsedTokens, KeyOf(f), args.url) /\ IsNullish(f.default)
           => ~ret.ok /\ ret.err = ErrMissingPath /\ ret.key = KeyOf(f)
    /\ args.cls = "ExampleRoute" /\ args.url = uBasic /\ UsedPattern.s = pExample
         => ret.ok /\ ret.inst[sName] = StrV(sBasic)

\* C3 as amended: a URL that carries no value for a placeholder {k}, so that
\* the pattern matches nowhere in it, fails with the parse error; the
\* missing-path-field error names a key k only if the pattern has no
\* placeholder {k} and the field bound to k has no default;
\* "/example/Basic" against "/example/{name}" gives name = "Basic".
C3_MissingPathFieldAmended ==
  IsFromUrl =>
    /\ \A f \in PlainPathFields(args.cls) :
         CarriesNoValue(UsedTokens, KeyOf(f), args.url) /\ ~MatchesSomewhere(UsedTokens, args.url)
           => ~ret.ok /\ ret.err = ErrParse
    /\ ret.err = ErrMissingPath
         => /\ ret.key \notin Placeholders(UsedTokens)
            /\ \E f \in PlainPathFields(args.cls) : KeyOf(f) = ret.key /\ IsNullish(f.default)
    /\ args.cls = "ExampleRoute" /\ args.url = uBasic /\ UsedPattern.s = pExample
         => ret.ok /\ ret.inst[sName] = StrV(sBasic)

\* "/a//b?q=1" against "/a/{x}/b", x without a default, failed with the
\* parse error.
C3_Witness ==
  /\ IsFromUrl
  /\ args.cls = "ItemRoute"
  /\ UsedPattern.s = pItem
  /\ CarriesNoValue(UsedTokens, sX, args.url)
  /\ ret.err = ErrParse

\* The URL has no source for the field: no placeholder of the pattern is
\* named by the key of a path field, no entry of the query string is named
\* by the key of a query field.
OmitsField(f, toks, url) ==
  IF f.meta.type = "Path" THEN KeyOf(f) \notin Placeholders(toks)
  ELSE ~SearchHas(NewURLSearchParams(QueryOf(url)), KeyOf(f))

\* fromUrl threw the missing-field error for the key of f.
ThrewMissing(f) ==
  /\ ~ret.ok
  /\ ret.err = (IF f.meta.type = "Path" THEN ErrMissingPath ELSE ErrMissingQuery)
  /\ ret.key = KeyOf(f)

\* C4: for every annotated plain field (path or query, of any value-kind)
\* with a non-null default, fromUrl on a URL that omits the field's segment
\* or key does not throw for it and returns the default in that field.
C4_DefaultTolerance ==
  IsFromUrl =>
    \A f \in PlainPathFields(args.cls) \cup PlainQueryFields(args.cls) :
      ~IsNullish(f.default) /\ OmitsField(f, UsedTokens, args.url)
        => /\ ~ThrewMissing(f)
           /\ ret.ok => ret.inst[f.prop] = f.default

\* C4 as amended: the same for plain path fields and for plain query fields
\* that are not of Boolean kind; a Boolean-kind query field whose key is
\* omitted is set to false, whatever its default.
C4_DefaultToleranceAmended ==
  IsFromUrl =>
    \A f \in PlainPathFields(args.cls) \cup PlainQueryFields(args.cls) :
      OmitsField(f, UsedTokens, args.url)
        => IF f.meta.dataType = "Boolean"
             THEN /\ ~ThrewMissing(f)
                  /\ ret.ok => ret.inst[f.prop] = BoolV(FALSE)
             ELSE ~IsNullish(f.default)
                    => /\ ~ThrewMissing(f)
                       /\ ret.ok => ret.inst[f.prop] = f.default

\* fromUrl(ExampleRoute, "/example/Basic") returned the default of other.
C4_Witness ==
  /\ IsFromUrl
  /\ args.cls = "ExampleRoute"
  /\ args.url = uBasic
  /\ ret.ok
  /\ ret.inst[sOther] = StrV(sDefaultText)

\* The last call was toRelativeUrl on an object that has a pattern.
IsToRelativeUrl == op = "toRelativeUrl" /\ ~IsNullish(UsedPattern)

\* The entries of the query string of a URL, as written.
QueryEntries(url) == SelectSeq(Split(QueryOf(url), "&"), LAMBDA e : e # <<>>)

\* The entries written for a key: the bare key, or the key followed by "=".
EntriesOf(url, key) ==
  SelectSeq(QueryEntries(url),
            LAMBDA e : e = FormEncode(key) \/ MatchesAt(e, FormEncode(key) \o <<"=">>, 1))

BooleanQueryFields(c) == {f \in PlainQueryFields(c) : f.meta.dataType = "Boolean"}

\* C5: a Boolean-kind query field that is true is serialized as the bare
\* key, with no "=" and no value; fromUrl sets such a field to true when the
\* key is present in the query string, whatever its value, and to false
\* when it is absent.
C5_BooleanFlag ==
  /\ IsToRelativeUrl /\ ret.ok
       => \A f \in BooleanQueryFields(args.cls) :
            args.obj[f.prop] = BoolV(TRUE) => EntriesOf(ret.url, KeyOf(f)) = <<FormEncode(KeyOf(f))>>
  /\ IsFromUrl /\ ret.ok
       => \A f \in BooleanQueryFields(args.cls) :
            ret.inst[f.prop] = BoolV(SearchHas(NewURLSearchParams(QueryOf(args.url)), KeyOf(f)))

\* C6: a query field holding a list is serialized as one "k=" entry per
\* element, in list order, never as one joined string.
C6_MultiValue ==
  IsToRelativeUrl /\ ret.ok
    => \A f \in PlainQueryFields(args.cls) :
         args.obj[f.prop].t = "array"
           => EntriesOf(ret.url, KeyOf(f))
                = [i \in 1..Len(args.obj[f.prop].l) |->
                     FormEncode(KeyOf(f)) \o <<"=">> \o FormEncode(args.obj[f.prop].l[i])]

\* The pattern with every occurrence of every "{key}" of the path
\* parameters replaced by the percent-encoded value.
RECURSIVE SubstituteEvery(_, _, _)
SubstituteEvery(url, pathParams, i) ==
  IF i > Len(pathParams) THEN url
  ELSE SubstituteEvery(
         ReplaceAll(url, <<"{">> \o pathParams[i][1] \o <<"}">>,
                    encodeURIComponent(pathParams[i][2])),
         pathParams, i + 1)

\* C7: toRelativeUrl replaces every occurrence of "{key}" in the pattern,
\* also of a placeholder that occurs more than once, by the percent-encoded
\* value of key, and leaves the rest of the pattern unchanged.
C7_Substitution ==
  IsToRelativeUrl
    => LET pathParams == CollectParams(Fields(args.cls), 1, args.obj, <<>>, <<>>)[1]
           expected == SubstituteEvery(UsedPattern.s, pathParams, 1)
       IN IF Includes(expected, <<"{">>) THEN ~ret.ok
          ELSE ret.ok /\ PathOf(ret.url) = expected

\* Some path field of the object that is not null supplies the key.
Supplies(cls, obj, k) ==
  \E i \in 1..Len(Fields(cls)) :
    LET f == Fields(cls)[i] IN
      /\ ~IsNullish(obj[f.prop])
      /\ \/ f.meta.type = "Path" /\ KeyOf(f) = k
         \/ f.meta.type = "PathSerde" /\ RecHas(Serialize(f.meta.serde, obj[f.prop]), k)

\* C8: toRelativeUrl throws the pattern-unfulfilled error whenever some
\* placeholder of the pattern is bound to a path field that is null or
\* undefined, or to no field; it never returns a string containing "{".
C8_Unfulfilled ==
  IsToRelativeUrl
    => /\ ret.ok => ~Includes(ret.url, <<"{">>)
       /\ (\E k \in Placeholders(UsedTokens) : ~Supplies(args.cls, args.obj, k))
            => ~ret.ok /\ ret.err = ErrUnfulfilled

\* toRelativeUrl of an ItemRoute whose x is undefined, against "/a/{x}/b",
\* threw the pattern-unfulfilled error.
C8_Witness ==
  /\ IsToRelativeUrl
  /\ args.cls = "ItemRoute"
  /\ UsedPattern.s = pItem
  /\ IsNullish(args.obj[sX])
  /\ ret.err = ErrUnfulfilled

\* The registrations (applications of route that returned) of a group for
\* which fromUrl succeeds on the URL, as indices of the history.
Succeeding(url, group) ==
  {i \in 1..Len(routeCalls) :
     /\ routeCalls[i].ok
     /\ routeCalls[i].group = group
     /\ fromUrl(routeMeta, routeCalls[i].cls, url, Undef).ok}

\* from returned the registration i.
ReturnedRegistration(i) ==
  /\ ret.ok
  /\ ~ret.nullish
  /\ ret.cls = routeCalls[i].cls
  /\ ret.name = routeCalls[i].name

\* C9: after any registrations in a group, under one or several names in
\* any interleaving, from(url, group) returns, among the candidates for
\* which fromUrl succeeds, the one registered earliest, with its name.
C9_EarliestRegistered ==
  op = "from" /\ Succeeding(args.url, args.group) # {}
    => ReturnedRegistration(CHOOSE i \in Succeeding(args.url, args.group) :
                              \A j \in Succeeding(args.url, args.group) : i <= j)

\* The call of route(...) that first gave the name of call i, in its group.
FirstUse(i) ==
  CHOOSE k \in 1..i :
    /\ routeCalls[k].group = routeCalls[i].group
    /\ routeCalls[k].name = routeCalls[i].name
    /\ \A m \in 1..(k - 1) :
         ~(routeCalls[m].group = routeCalls[i].group /\ routeCalls[m].name = routeCalls[i].name)

\* Registration i is tried before registration j: its name was given to
\* route(...) first, or they share the name and i is the earlier.
TriedBefore(i, j) ==
  \/ FirstUse(i) < FirstUse(j)
  \/ FirstUse(i) = FirstUse(j) /\ i < j

\* C9 as amended: from returns the first succeeding candidate in the order
\* names in the order they were first given to route(...) for the group,
\* and under one name in registration order, with its name.
C9_FirstInNameOrder ==
  op = "from" /\ Succeeding(args.url, args.group) # {}
    => ReturnedRegistration(CHOOSE i \in Succeeding(args.url, args.group) :
                              \A j \in Succeeding(args.url, args.group) : i = j \/ TriedBefore(i, j))

\* from returned a match although fromUrl succeeds for several candidates
\* of the group, registered under different names.
C9_Witness ==
  /\ op = "from"
  /\ ~ret.nullish
  /\ \E i, j \in Succeeding(args.url, args.group) : routeCalls[i].name # routeCalls[j].name

\* C10: from(url, group) never throws, also for a group without any
\* registration; it returns null exactly when fromUrl fails for every
\* candidate of the group.
C10_NeverThrows ==
  op = "from"
    => /\ ret.ok
       /\ ret.nullish <=> Succeeding(args.url, args.group) = {}

\* The applications of route(...) to the type that returned, as indices of
\* the history.
RegistrationsOf(type) ==
  {i \in 1..Len(routeCalls) : routeCalls[i].cls = type /\ routeCalls[i].ok}

\* The last call needs the route of its type: routePath, routeName, or
\* fromUrl without an explicit pattern.
NeedsRoute ==
  \/ op \in {"routePath", "routeName"}
  \/ op = "fromUrl" /\ IsNullish(args.route)

\* C11: for a type that was never itself given to route(...), whether or
\* not a parent type was, routePath, routeName and fromUrl without an
\* explicit pattern throw the TypeError; for a registered type routePath and
\* routeName return the pattern and the name given at its registration.
C11_UnregisteredRejected ==
  /\ NeedsRoute /\ RegistrationsOf(args.cls) = {}
       => ~ret.ok /\ ret.err = ErrNotRoute
  /\ \A i \in RegistrationsOf(args.cls) :
       /\ op = "routePath" => ret.ok /\ ret.url = routeCalls[i].route
       /\ op = "routeName" => ret.ok /\ ret.name = routeCalls[i].name

\* The type has a path field able to receive the placeholder: a plain path
\* field whose key is the placeholder's name, or a path field with a
\* deserialize function.
CanReceive(type, k) ==
  \E i \in 1..Len(Fields(type)) :
    \/ Fields(type)[i].meta.type = "Path" /\ KeyOf(Fields(type)[i]) = k
    \/ Fields(type)[i].meta.type = "PathSerde"

\* C12: fromUrl fails whenever the pattern has a placeholder that no path
\* field of the type is able to receive; it never returns an instance while
\* discarding the value captured for a placeholder.
C12_PlaceholderSatisfiable ==
  IsFromUrl /\ (\E k \in Placeholders(UsedTokens) : ~CanReceive(args.cls, k))
    => ~ret.ok

\* The plain fields of a type that are not of Boolean kind.
PlainValueFields(c) ==
  {f \in PlainPathFields(c) \cup PlainQueryFields(c) : f.meta.dataType # "Boolean"}

\* C13: for a plain field that is not of Boolean kind and for which the URL
\* supplies no value, fromUrl returns only if the fresh instance holds a
\* non-null value in the field, and it throws the missing-field error for a
\* field only if the fresh instance holds null or undefined in it; the same
\* for path and for query fields.
C13_RequiredUnlessNonNull ==
  IsFromUrl =>
    /\ ret.ok => \A f \in PlainValueFields(args.cls) :
                   OmitsField(f, UsedTokens, args.url) => ~IsNullish(f.default)
    /\ \A f \in PlainValueFields(args.cls) :
         ThrewMissing(f) => OmitsField(f, UsedTokens, args.url) /\ IsNullish(f.default)

\* definedRoutes(group)[name], the empty sequence when there is none.
CandidatesOf(known, group, name) ==
  IF RecHas(known, group) /\ RecHas(RecGet(known, group), name)
    THEN RecGet(RecGet(known, group), name)
    ELSE <<>>

\* The constructors registered under (group, name), in registration order.
RECURSIVE RegisteredUnder(_, _, _)
RegisteredUnder(calls, group, name) ==
  IF calls = <<>> THEN <<>>
  ELSE (IF Head(calls).ok /\ Head(calls).group = group /\ Head(calls).name = name
          THEN <<Head(calls).cls>> ELSE <<>>)
       \o RegisteredUnder(Tail(calls), group, name)

IsPrefix(s, t) == Len(s) <= Len(t) /\ SubSeq(t, 1, Len(s)) = s

\* Every list of the registry is the constructors registered under its
\* group and name, in registration order.
RegistryIsHistory ==
  \A group \in Groups, name \in RouteNames :
    CandidatesOf(knownRoutes, group, name) = RegisteredUnder(routeCalls, group, name)

\* A step only appends to the lists of the registry, and a step of a read
\* operation leaves the registry as it is.
RegistryStep ==
  /\ \A group \in Groups, name \in RouteNames :
       IsPrefix(CandidatesOf(knownRoutes, group, name), CandidatesOf(knownRoutes', group, name))
  /\ op' # "route" => knownRoutes' = knownRoutes

\* C14: after any registrations interleaved with the read operations,
\* definedRoutes(g)[n] is the sequence of constructors registered under
\* (g, n) in registration order; no entry is removed, reordered or placed
\* under another group or name, and no read operation changes the registry.
C14_AppendOnly == [][RegistryStep]_vars /\ []RegistryIsHistory

\* A read operation followed the registration of two constructors under one
\* group and name.
C14_Witness ==
  /\ op \in {"from", "fromUrl", "toRelativeUrl", "routePath", "routeName", "definedRoutes"}
  /\ \E group \in Groups, name \in RouteNames :
       Len(CandidatesOf(knownRoutes, group, name)) = 2

\* C15: route(name, pattern, {group}) applied to a constructor that is
\* already registered fails, and it leaves the registry as it was (no new
\* group, name or list) and the constructor with its pattern and name.
C15_FailedRouteNoChange ==
  [][op' = "route"
       => /\ RegistrationsOf(args'.cls) # {} => ~ret'.ok
          /\ ~ret'.ok => knownRoutes' = knownRoutes /\ routeMeta' = routeMeta]_vars

\* The groups fromUrl hands to the deserialize function of a path field: the
\* named groups of the match.
DeserializeInput == RegExpExec(UsedTokens, args.url).groups

\* The path fields of a type with a serialize/deserialize pair.
SerdePathFields(c) == {f \in {Fields(c)[i] : i \in 1..Len(Fields(c))} : f.meta.type = "PathSerde"}

\* C16: in fromUrl(type, toRelativeUrl(i)) the deserialize function of a
\* path field receives, for every key serialize produced, the string
\* serialize produced for it: the percent-encoding of the substitution is
\* undone before the call.
C16_SerdeDecoded ==
  IsFromUrl /\ args.produced /\ RegExpExec(UsedTokens, args.url).ok
    => \A f \in SerdePathFields(args.cls) :
         ~IsNullish(args.obj[f.prop])
           => \A j \in 1..Len(Serialize(f.meta.serde, args.obj[f.prop])) :
                LET entry == Serialize(f.meta.serde, args.obj[f.prop])[j] IN
                  entry[1] \in Placeholders(UsedTokens)
                    => /\ RecHas(DeserializeInput, entry[1])
                       /\ RecGet(DeserializeInput, entry[1]) = entry[2]

\* C17: toRelativeUrl of an instance whose Boolean-kind query field is false
\* writes no entry for the field's key, so that fromUrl on the URL it made
\* sets the field to false again.
C17_FalseByAbsence ==
  /\ IsToRelativeUrl /\ ret.ok
       => \A f \in BooleanQueryFields(args.cls) :
            args.obj[f.prop] = BoolV(FALSE) => EntriesOf(ret.url, KeyOf(f)) = <<>>
  /\ IsFromUrl /\ args.produced /\ ret.ok
       => \A f \in BooleanQueryFields(args.cls) :
            args.obj[f.prop] = BoolV(FALSE) => ret.inst[f.prop] = BoolV(FALSE)

====
